---- MODULE Spec2Model ----
(***************************************************************************)
(* Client-message builder of penrose (src/core/xconnection/event.rs):      *)
(* ClientMessageKind::as_message, ClientMessage::try_from_data,            *)
(* ClientMessage::from_data_unchecked and ClientMessage::data.             *)
(*                                                                         *)
(* A call is one action.  Every function returns a record                  *)
(*     [ret |-> value, trace |-> events]                                   *)
(* where trace lists, in order, the calls it made to the injected          *)
(* XAtomQuerier (atom_id) and to the unchecked constructor.                *)
(***************************************************************************)
EXTENDS Integers, Sequences, FiniteSets, TLC

\* ------------------------------------------------------------- bounds ----
MaxXid == 1
MaxAtomId == 2
MaxWord == 1
MaxLen == 6

\* --------------------------------------------------- program constants ---
ClientMessageLen == 5
xembed_version == 0
notify == 0
activate == 1
focus_in == 4
modality_on == 10

\* ------------------------------------------------------------- values ----
Xids == 0..MaxXid
AtomIds == 1..MaxAtomId
Words == 0..MaxWord

Atoms == {"WmProtocols", "WmDeleteWindow", "WmTakeFocus", "Manager",
          "NetSystemTrayS0", "XEmbed"}

\* Atom::as_ref: the X11 name of an atom
as_ref(atom) ==
    CASE atom = "WmProtocols"     -> "WM_PROTOCOLS"
      [] atom = "WmDeleteWindow"  -> "WM_DELETE_WINDOW"
      [] atom = "WmTakeFocus"     -> "WM_TAKE_FOCUS"
      [] atom = "Manager"         -> "MANAGER"
      [] atom = "NetSystemTrayS0" -> "_NET_SYSTEM_TRAY_S0"
      [] atom = "XEmbed"          -> "_XEMBED"

Names == {as_ref(a) : a \in Atoms}

ClientEventMask == {"SubstructureNotify", "NoEventMask"}

Ok(v) == <<"Ok", v>>
Err(e) == <<"Err", e>>
IsOk(r) == r[1] = "Ok"
IsErr(r) == r[1] = "Err"

\* XError::InvalidClientMessageData(usize)
InvalidClientMessageData(n) == <<"InvalidClientMessageData", n>>
\* the error an XAtomQuerier gives when it cannot resolve a name
AtomResolutionFailed(name) == <<"AtomResolutionFailed", name>>

\* The answers an XAtomQuerier can give for one name, and the queriers.
Answers(name) == {Ok(a) : a \in AtomIds} \cup {Err(AtomResolutionFailed(name))}
XAtomQuerier ==
    {[n \in Names |-> IF f[n] = 0 THEN Err(AtomResolutionFailed(n)) ELSE Ok(f[n])] :
        f \in [Names -> {0} \cup AtomIds]}

ClientMessageKind ==
    {<<"DeleteWindow", id>> : id \in Xids} \cup
    {<<"TakeFocus", id>> : id \in Xids} \cup
    {<<t, a, b>> : t \in {"TakeSystrayOwnership", "XEmbedFocusIn", "XEmbedModalityOn",
                          "XEmbedNotify", "XEmbedWindowActivate"},
                   a \in Xids, b \in Xids}

\* ---------------------------------------------------------- functions ----
\* XAtomQuerier::atom_id, as seen from the caller: the answer, and the call
atom_id(q, name) ==
    [ret |-> q[name], trace |-> << <<"atom_id", name, q[name]>> >>]

from_data_unchecked(id, mask, dtype, d) ==
    [ret |-> [id |-> id, mask |-> mask, dtype |-> dtype, data |-> d],
     trace |-> << <<"from_data_unchecked", d>> >>]

data(m) == m.data

\* faulty variant: only a payload longer than 5 words is rejected
try_from_data_accepts_short(id, mask, dtype, d) ==
    IF Len(d) > ClientMessageLen
    THEN [ret |-> Err(InvalidClientMessageData(Len(d))), trace |-> <<>>]
    ELSE LET m == from_data_unchecked(id, mask, dtype, d)
         IN  [ret |-> Ok(m.ret), trace |-> m.trace]

\* faulty variant: the mask argument is dropped for NoEventMask
try_from_data_drops_mask(id, mask, dtype, d) ==
    IF Len(d) # ClientMessageLen
    THEN [ret |-> Err(InvalidClientMessageData(Len(d))), trace |-> <<>>]
    ELSE LET m == from_data_unchecked(id, "NoEventMask", dtype, d)
         IN  [ret |-> Ok(m.ret), trace |-> m.trace]

try_from_data(id, mask, dtype, d) ==
    IF Len(d) # ClientMessageLen
    THEN [ret |-> Err(InvalidClientMessageData(Len(d))), trace |-> <<>>]
    ELSE LET m == from_data_unchecked(id, mask, dtype, d)
         IN  [ret |-> Ok(m.ret), trace |-> m.trace]

\* faulty variant: the protocol atom and the message-type atom are swapped
proto_msg_swapped_atoms(q, id, atom) ==
    LET proto == as_ref(atom)
        a == atom_id(q, as_ref("WmProtocols"))
    IN  IF IsErr(a.ret)
        THEN [ret |-> a.ret, trace |-> a.trace]
        ELSE LET d == <<a.ret[2], 0, 0, 0, 0>>
                 mask == "NoEventMask"
                 m == from_data_unchecked(id, mask, proto, d)
             IN  [ret |-> Ok(m.ret), trace |-> a.trace \o m.trace]

\* faulty variant: a failed resolution is tried a second time
proto_msg_retries(q, id, atom) ==
    LET proto == as_ref("WmProtocols")
        a1 == atom_id(q, as_ref(atom))
        a2 == atom_id(q, as_ref(atom))
        a == IF IsErr(a1.ret)
             THEN [ret |-> a2.ret, trace |-> a1.trace \o a2.trace]
             ELSE a1
    IN  IF IsErr(a.ret)
        THEN [ret |-> a.ret, trace |-> a.trace]
        ELSE LET d == <<a.ret[2], 0, 0, 0, 0>>
                 mask == "NoEventMask"
                 m == from_data_unchecked(id, mask, proto, d)
             IN  [ret |-> Ok(m.ret), trace |-> a.trace \o m.trace]

\* faulty variant: the message-type atom is resolved too, and its failure returned
proto_msg_resolves_dtype(q, id, atom) ==
    LET proto == as_ref("WmProtocols")
        p == atom_id(q, proto)
        a == atom_id(q, as_ref(atom))
    IN  IF IsErr(p.ret)
        THEN [ret |-> p.ret, trace |-> p.trace]
        ELSE IF IsErr(a.ret)
        THEN [ret |-> a.ret, trace |-> p.trace \o a.trace]
        ELSE LET d == <<a.ret[2], 0, 0, 0, 0>>
                 mask == "NoEventMask"
                 m == from_data_unchecked(id, mask, proto, d)
             IN  [ret |-> Ok(m.ret), trace |-> p.trace \o a.trace \o m.trace]

\* (the closure captures the querier s of as_message; it is the parameter q)
proto_msg(q, id, atom) ==
    LET proto == as_ref("WmProtocols")
        a == atom_id(q, as_ref(atom))
    IN  IF IsErr(a.ret)
        THEN [ret |-> a.ret, trace |-> a.trace]
        ELSE LET d == <<a.ret[2], 0, 0, 0, 0>>
                 mask == "NoEventMask"
                 m == from_data_unchecked(id, mask, proto, d)
             IN  [ret |-> Ok(m.ret), trace |-> a.trace \o m.trace]

\* faulty variant: the version word is left out of the payload
xembed_msg_no_version(q, id, embedder, kind) ==
    LET atom == as_ref("XEmbed")
        d == <<0, kind, 0, embedder>>
        mask == "SubstructureNotify"
        m == from_data_unchecked(id, mask, atom, d)
    IN  [ret |-> Ok(m.ret), trace |-> m.trace]

\* faulty variant: the embedder is written one word early
xembed_msg_embedder_early(q, id, embedder, kind) ==
    LET atom == as_ref("XEmbed")
        d == <<0, kind, embedder, 0, xembed_version>>
        mask == "SubstructureNotify"
        m == from_data_unchecked(id, mask, atom, d)
    IN  [ret |-> Ok(m.ret), trace |-> m.trace]

\* faulty variant: the XEmbed atom is resolved first, and its failure returned
xembed_msg_resolves_atom(q, id, embedder, kind) ==
    LET atom == as_ref("XEmbed")
        x == atom_id(q, atom)
    IN  IF IsErr(x.ret)
        THEN [ret |-> x.ret, trace |-> x.trace]
        ELSE LET d == <<0, kind, 0, embedder, xembed_version>>
                 mask == "SubstructureNotify"
                 m == from_data_unchecked(id, mask, atom, d)
             IN  [ret |-> Ok(m.ret), trace |-> x.trace \o m.trace]

\* (the closure captures the querier s of as_message; it is the parameter q)
xembed_msg(q, id, embedder, kind) ==
    LET atom == as_ref("XEmbed")
        d == <<0, kind, 0, embedder, xembed_version>>
        mask == "SubstructureNotify"
        m == from_data_unchecked(id, mask, atom, d)
    IN  [ret |-> Ok(m.ret), trace |-> m.trace]

\* faulty variant: the message is addressed to the systray window, not the root
take_systray_ownership_to_systray(q, root_id, systray_id) ==
    LET atom == as_ref("Manager")
        systray == atom_id(q, as_ref("NetSystemTrayS0"))
    IN  IF IsErr(systray.ret)
        THEN [ret |-> systray.ret, trace |-> systray.trace]
        ELSE LET d == <<0, systray.ret[2], systray_id, 0, 0>>
                 mask == "SubstructureNotify"
                 m == from_data_unchecked(systray_id, mask, atom, d)
             IN  [ret |-> Ok(m.ret), trace |-> systray.trace \o m.trace]

\* faulty variant: a failed resolution is replaced by the atom id 0
take_systray_ownership_defaults(q, root_id, systray_id) ==
    LET atom == as_ref("Manager")
        systray == atom_id(q, as_ref("NetSystemTrayS0"))
        a == IF IsErr(systray.ret) THEN 0 ELSE systray.ret[2]
        d == <<0, a, systray_id, 0, 0>>
        mask == "SubstructureNotify"
        m == from_data_unchecked(root_id, mask, atom, d)
    IN  [ret |-> Ok(m.ret), trace |-> systray.trace \o m.trace]

\* the TakeSystrayOwnership arm of as_message
take_systray_ownership(q, root_id, systray_id) ==
    LET atom == as_ref("Manager")
        systray == atom_id(q, as_ref("NetSystemTrayS0"))
    IN  IF IsErr(systray.ret)
        THEN [ret |-> systray.ret, trace |-> systray.trace]
        ELSE LET d == <<0, systray.ret[2], systray_id, 0, 0>>
                 mask == "SubstructureNotify"
                 m == from_data_unchecked(root_id, mask, atom, d)
             IN  [ret |-> Ok(m.ret), trace |-> systray.trace \o m.trace]

as_message(self, q) ==
    CASE self[1] = "DeleteWindow" -> proto_msg(q, self[2], "WmDeleteWindow")
      [] self[1] = "TakeFocus" -> proto_msg(q, self[2], "WmTakeFocus")
      [] self[1] = "TakeSystrayOwnership" -> take_systray_ownership(q, self[2], self[3])
      [] self[1] = "XEmbedFocusIn" -> xembed_msg(q, self[2], self[3], focus_in)
      [] self[1] = "XEmbedModalityOn" -> xembed_msg(q, self[2], self[3], modality_on)
      [] self[1] = "XEmbedNotify" -> xembed_msg(q, self[2], self[3], notify)
      [] self[1] = "XEmbedWindowActivate" -> xembed_msg(q, self[2], self[3], activate)

\* -------------------------------------------------------------- state ----
VARIABLES op, kind, s, input, ret, trace, first
vars == <<op, kind, s, input, ret, trace, first>>

NoKind == <<"None">>
NoInput == <<"None">>
NoResult == <<"None">>
NoQuerier == [n \in Names |-> Err(AtomResolutionFailed(n))]

RECURSIVE SeqsUpTo(_, _)
SeqsUpTo(S, n) ==
    IF n = 0 THEN {<<>>}
    ELSE LET shorter == SeqsUpTo(S, n - 1)
         IN  shorter \cup {Append(q, x) : q \in {t \in shorter : Len(t) = n - 1}, x \in S}

DTypes == {as_ref("WmProtocols"), as_ref("XEmbed"), "_NET_WM_STATE"}

Init ==
    /\ op = "init"
    /\ kind = NoKind
    /\ s = NoQuerier
    /\ input = NoInput
    /\ ret = NoResult
    /\ trace = <<>>
    /\ first = NoResult

\* The functions are pure and keep nothing between calls, so a behaviour is
\* one call from the initial state and the calls that follow up on its result.
\* a caller builds a message from a kind with the querier q
AsMessage ==
    /\ op = "init"
    /\ \E k \in ClientMessageKind, q \in XAtomQuerier :
        LET r == as_message(k, q)
        IN  /\ op' = "as_message"
            /\ kind' = k
            /\ s' = q
            /\ input' = NoInput
            /\ ret' = r.ret
            /\ trace' = r.trace
            /\ first' = NoResult

\* a caller builds a message from raw fields
TryFromData ==
    /\ op = "init"
    /\ \E id \in Xids, mask \in ClientEventMask, dtype \in DTypes,
       d \in SeqsUpTo(Words, MaxLen) :
        LET r == try_from_data(id, mask, dtype, d)
        IN  /\ op' = "try_from_data"
            /\ kind' = NoKind
            /\ s' = NoQuerier
            /\ input' = <<id, mask, dtype, d>>
            /\ ret' = r.ret
            /\ trace' = r.trace
            /\ first' = NoResult

\* a caller passes the fields of a message built by as_message to try_from_data
Revalidate ==
    /\ op = "as_message"
    /\ IsOk(ret)
    /\ LET m == ret[2]
           r == try_from_data(m.id, m.mask, m.dtype, data(m))
       IN  /\ op' = "revalidate"
           /\ input' = <<m.id, m.mask, m.dtype, data(m)>>
           /\ ret' = r.ret
           /\ trace' = r.trace
           /\ first' = [ret |-> ret, s |-> s]
           /\ UNCHANGED <<kind, s>>

\* the querier q, failing on every name but those of keep
FailAllBut(q, keep) ==
    [n \in Names |-> IF n \in keep THEN q[n] ELSE Err(AtomResolutionFailed(n))]

\* the names a call with the trace tr passed to the querier
Queried(tr) == {tr[i][2] : i \in {j \in DOMAIN tr : tr[j][1] = "atom_id"}}

\* a caller builds the same kind a second time, with the same querier or with
\* one that fails on every name the first call did not ask for
AsMessageAgain ==
    /\ op = "as_message"
    /\ \E q \in {s, FailAllBut(s, Queried(trace))} :
        LET r == as_message(kind, q)
        IN  /\ op' = "again"
            /\ s' = q
            /\ ret' = r.ret
            /\ trace' = r.trace
            /\ first' = [ret |-> ret, s |-> s]
            /\ UNCHANGED <<kind, input>>

Next == AsMessage \/ TryFromData \/ Revalidate \/ AsMessageAgain

Spec == Init /\ [][Next]_vars

\* ------------------------------------------------------------- claims ----
\* the state is the result of a call of as_message
Built == op \in {"as_message", "again"}

XEmbedKinds == {"XEmbedFocusIn", "XEmbedModalityOn", "XEmbedNotify", "XEmbedWindowActivate"}

\* the atom whose id the message of kind k carries, as the specification names it
RequiredAtoms(k) ==
    CASE k[1] = "DeleteWindow" -> {"WmDeleteWindow"}
      [] k[1] = "TakeFocus" -> {"WmTakeFocus"}
      [] k[1] = "TakeSystrayOwnership" -> {"NetSystemTrayS0"}
      [] OTHER -> {}

RequiredNames(k) == {as_ref(a) : a \in RequiredAtoms(k)}

\* the calls of the trace tr to the function named fn
Calls(tr, fn) == {i \in DOMAIN tr : tr[i][1] = fn}

\* C1: try_from_data fails with InvalidClientMessageData(n), n the length of the
\* input, and builds no message, for every input whose length is not 5; for an
\* input of length 5 it returns a message with the given id, mask, dtype and data.
C1_TryFromData ==
    op = "try_from_data" =>
        LET id == input[1]
            mask == input[2]
            dtype == input[3]
            d == input[4]
        IN  IF Len(d) # 5
            THEN /\ ret = Err(InvalidClientMessageData(Len(d)))
                 /\ Calls(trace, "from_data_unchecked") = {}
            ELSE /\ IsOk(ret)
                 /\ data(ret[2]) = d
                 /\ \A i \in 1..5 : data(ret[2])[i] = d[i]
                 /\ ret[2].id = id
                 /\ ret[2].mask = mask
                 /\ ret[2].dtype = dtype

C1_Witness ==
    /\ op = "try_from_data"
    /\ Len(input[4]) > 5
    /\ ret = Err(InvalidClientMessageData(6))

\* C2: every message returned by try_from_data or as_message has a data() of
\* exactly 5 words, and every call of from_data_unchecked gets 5 words.
C2_FiveWords ==
    /\ (op # "init" /\ IsOk(ret)) => Len(data(ret[2])) = 5
    /\ \A i \in Calls(trace, "from_data_unchecked") : Len(trace[i][2]) = 5

C2_Witness ==
    /\ op = "as_message"
    /\ kind[1] = "TakeSystrayOwnership"
    /\ IsOk(ret)
    /\ Calls(trace, "from_data_unchecked") # {}

\* C3: DeleteWindow(id) and TakeFocus(id), when the querier resolves the
\* protocol atom to a, give the message (id, NoEventMask, name of WmProtocols,
\* [a, 0, 0, 0, 0]).
C3_ProtoMsg ==
    (Built /\ kind[1] \in {"DeleteWindow", "TakeFocus"}) =>
        LET name == IF kind[1] = "DeleteWindow" THEN as_ref("WmDeleteWindow")
                    ELSE as_ref("WmTakeFocus")
        IN  IsOk(s[name]) =>
                ret = Ok([id |-> kind[2], mask |-> "NoEventMask",
                          dtype |-> as_ref("WmProtocols"),
                          data |-> <<s[name][2], 0, 0, 0, 0>>])

C3_Witness ==
    /\ op = "as_message"
    /\ kind = <<"TakeFocus", 1>>
    /\ s[as_ref("WmTakeFocus")] = Ok(2)
    /\ s[as_ref("WmDeleteWindow")] = Ok(1)
    /\ IsOk(ret)

XEmbedOpcode(tag) ==
    CASE tag = "XEmbedNotify" -> 0
      [] tag = "XEmbedWindowActivate" -> 1
      [] tag = "XEmbedFocusIn" -> 4
      [] tag = "XEmbedModalityOn" -> 10

\* C4: an XEmbed kind K(id, other) gives the message (id, SubstructureNotify,
\* name of XEmbed, [0, opcode, 0, other, 0]) with the opcode of K, and another
\* XEmbed kind with the same arguments gives a different message.
C4_XEmbedMsg ==
    (Built /\ kind[1] \in XEmbedKinds) =>
        /\ ret = Ok([id |-> kind[2], mask |-> "SubstructureNotify",
                     dtype |-> as_ref("XEmbed"),
                     data |-> <<0, XEmbedOpcode(kind[1]), 0, kind[3], 0>>])
        /\ \A t \in XEmbedKinds \ {kind[1]} :
               as_message(<<t, kind[2], kind[3]>>, s).ret # ret

C4_Witness ==
    /\ op = "as_message"
    /\ kind = <<"XEmbedModalityOn", 0, 1>>
    /\ IsOk(ret)
    /\ data(ret[2])[2] = 10

\* C5: TakeSystrayOwnership(root, systray), when the querier resolves the
\* systray selection atom to a, gives the message (root, SubstructureNotify,
\* name of Manager, [0, a, systray, 0, 0]).
C5_SystrayMsg ==
    (Built /\ kind[1] = "TakeSystrayOwnership") =>
        LET name == as_ref("NetSystemTrayS0")
        IN  IsOk(s[name]) =>
                ret = Ok([id |-> kind[2], mask |-> "SubstructureNotify",
                          dtype |-> as_ref("Manager"),
                          data |-> <<0, s[name][2], kind[3], 0, 0>>])

C5_Witness ==
    /\ op = "as_message"
    /\ kind = <<"TakeSystrayOwnership", 0, 1>>
    /\ s[as_ref("NetSystemTrayS0")] = Ok(2)
    /\ IsOk(ret)

\* C6: when the querier fails on a name the kind requires, as_message returns
\* that error and builds no message.
C6_ErrorPropagated ==
    Built =>
        \A name \in RequiredNames(kind) :
            IsErr(s[name]) =>
                /\ ret = s[name]
                /\ Calls(trace, "from_data_unchecked") = {}

C6_Witness ==
    /\ op = "as_message"
    /\ kind[1] = "TakeSystrayOwnership"
    /\ IsErr(s[as_ref("NetSystemTrayS0")])
    /\ IsOk(s[as_ref("Manager")])
    /\ IsErr(ret)

\* C7: try_from_data on the id, mask, dtype and data() of a message m built by
\* as_message returns m.
C7_RoundTrip ==
    op = "revalidate" => (IsOk(ret) /\ ret = first.ret)

C7_Witness ==
    /\ op = "revalidate"
    /\ kind[1] = "XEmbedNotify"
    /\ IsOk(ret)

\* C8: an error of as_message is an error the querier gave during the call, and
\* never InvalidClientMessageData; as_message succeeds when every call of the
\* querier succeeds; the XEmbed kinds succeed with every querier.
C8_OnlyFailure ==
    Built =>
        /\ IsErr(ret) =>
               /\ \E i \in Calls(trace, "atom_id") : trace[i][3] = ret
               /\ ret[2][1] # "InvalidClientMessageData"
        /\ (\A i \in Calls(trace, "atom_id") : IsOk(trace[i][3])) => IsOk(ret)
        /\ kind[1] \in XEmbedKinds => IsOk(ret)

C8_Witness ==
    /\ op = "as_message"
    /\ kind[1] = "XEmbedFocusIn"
    /\ \A n \in Names : IsErr(s[n])
    /\ IsOk(ret)

\* C9: one call of as_message calls atom_id exactly once for DeleteWindow,
\* TakeFocus and TakeSystrayOwnership, whether it succeeds or fails, and never
\* for the XEmbed kinds.
C9_ResolverCalls ==
    Built =>
        Cardinality(Calls(trace, "atom_id")) =
            (IF kind[1] \in XEmbedKinds THEN 0 ELSE 1)

C9_Witness ==
    /\ op = "as_message"
    /\ kind[1] = "DeleteWindow"
    /\ IsErr(ret)
    /\ Cardinality(Calls(trace, "atom_id")) = 1

\* C10: the result of as_message depends on the querier only through its answer
\* for the required name: it is the result with a querier failing on every
\* other name, it does not change when the answer for another name changes,
\* only required names are passed to the querier, and a second call with a
\* querier that agrees on the required name returns the same result.
C10_DependsOnOneName ==
    /\ Built =>
        /\ ret = as_message(kind, FailAllBut(s, RequiredNames(kind))).ret
        /\ \A n \in Names \ RequiredNames(kind) : \A a \in Answers(n) :
               as_message(kind, [s EXCEPT ![n] = a]).ret = ret
        /\ \A i \in Calls(trace, "atom_id") : trace[i][2] \in RequiredNames(kind)
    /\ op = "again" =>
        ((\A n \in RequiredNames(kind) : s[n] = first.s[n]) => ret = first.ret)

C10_Witness ==
    /\ op = "again"
    /\ kind[1] = "DeleteWindow"
    /\ IsOk(first.s[as_ref("WmProtocols")])
    /\ IsErr(s[as_ref("WmProtocols")])
    /\ s[as_ref("WmDeleteWindow")] = first.s[as_ref("WmDeleteWindow")]
    /\ IsOk(ret)

====
